---- MODULE Spec2Model ----
(***************************************************************************)
(* A model of the pr-agent MCP server (server.py): the three tools         *)
(* analyze_file_changes, get_pr_templates and suggest_template, their      *)
(* external collaborators (the MCP root provider, the git subprocesses,    *)
(* the template files) and the exceptions that travel between them.        *)
(*                                                                         *)
(* Conventions.  A Python text is a sequence of tokens: a token is one     *)
(* character ("a", "\n") or, inside fixed messages, a longer chunk.  A     *)
(* Python Optional is a sequence of length at most one: None is <<>>.      *)
(* A JSON/Python value whose run-time type matters carries it in a "type"  *)
(* field: [type |-> "dict" | "list" | "str", value |-> ...].               *)
(***************************************************************************)
EXTENDS Integers, Sequences, FiniteSets, TLC

\* ---------------------------------------------------------------- bounds
\* the longest diff text drawn for a git diff, in lines
MaxTextLines == 2
\* max_diff_lines ranges over -NegLimit .. MaxLimit
MaxLimit == 2
NegLimit == 1
\* the longest template list drawn for the scan of suggest_template
MaxListLen == 3

\* ------------------------------------------------------------ Python text
None == <<>>
Some(x) == <<x>>
NL == "\n"

Max(a, b) == IF a > b THEN a ELSE b
Min(a, b) == IF a < b THEN a ELSE b

\* str.split('\n'): the pieces between separators; "" splits into [""]
RECURSIVE Split(_)
Split(s) ==
  IF s = <<>> THEN << <<>> >>
  ELSE LET rest == Split(Tail(s)) IN
       IF Head(s) = NL THEN << <<>> >> \o rest
       ELSE << <<Head(s)>> \o rest[1] >> \o Tail(rest)

\* '\n'.join(lines)
RECURSIVE Join(_)
Join(lines) ==
  IF lines = <<>> THEN <<>>
  ELSE IF Len(lines) = 1 THEN lines[1]
  ELSE lines[1] \o <<NL>> \o Join(Tail(lines))

\* lines[:n], Python's slice: a negative n counts from the end
Slice(lines, n) ==
  LET stop == IF n < 0 THEN Max(Len(lines) + n, 0) ELSE Min(n, Len(lines))
  IN SubSeq(lines, 1, stop)

\* str.lower() on the letters the model uses
UpperLetters == <<"A","B","C","D","E","F","G","H","I","J","K","L","M",
                  "N","O","P","Q","R","S","T","U","V","W","X","Y","Z">>
LowerLetters == <<"a","b","c","d","e","f","g","h","i","j","k","l","m",
                  "n","o","p","q","r","s","t","u","v","w","x","y","z">>
LowerChar(c) ==
  IF \E i \in 1..Len(UpperLetters) : UpperLetters[i] = c
  THEN LowerLetters[CHOOSE i \in 1..Len(UpperLetters) : UpperLetters[i] = c]
  ELSE c
Lower(s) == [i \in 1..Len(s) |-> LowerChar(s[i])]

\* json.dumps / json.loads: the text of a value, and the value of a text
JsonDumps(v) == [json |-> v]
JsonLoads(t) == t.json

\* -------------------------------------------------------------- constants
\* DEFAULT_TEMPLATES, in declaration order (dict order is insertion order)
DEFAULT_TEMPLATES ==
  << [name |-> "bug.md",         label |-> "Bug Fix"],
     [name |-> "feature.md",     label |-> "Feature"],
     [name |-> "docs.md",        label |-> "Documentation"],
     [name |-> "refactor.md",    label |-> "Refactor"],
     [name |-> "test.md",        label |-> "Test"],
     [name |-> "performance.md", label |-> "Performance"],
     [name |-> "security.md",    label |-> "Security"] >>

\* TYPE_MAPPING, keys spelled as texts
TYPE_MAPPING ==
  << [key |-> <<"b","u","g">>,                          file |-> "bug.md"],
     [key |-> <<"f","i","x">>,                          file |-> "bug.md"],
     [key |-> <<"f","e","a","t","u","r","e">>,          file |-> "feature.md"],
     [key |-> <<"e","n","h","a","n","c","e","m","e","n","t">>,
                                                        file |-> "feature.md"],
     [key |-> <<"d","o","c","s">>,                      file |-> "docs.md"],
     [key |-> <<"d","o","c","u","m","e","n","t","a","t","i","o","n">>,
                                                        file |-> "docs.md"],
     [key |-> <<"r","e","f","a","c","t","o","r">>,      file |-> "refactor.md"],
     [key |-> <<"c","l","e","a","n","u","p">>,          file |-> "refactor.md"],
     [key |-> <<"t","e","s","t">>,                      file |-> "test.md"],
     [key |-> <<"t","e","s","t","i","n","g">>,          file |-> "test.md"],
     [key |-> <<"p","e","r","f","o","r","m","a","n","c","e">>,
                                                        file |-> "performance.md"],
     [key |-> <<"o","p","t","i","m","i","z","a","t","i","o","n">>,
                                                        file |-> "performance.md"],
     [key |-> <<"s","e","c","u","r","i","t","y">>,      file |-> "security.md"] >>

\* TYPE_MAPPING.get(key, default)
TypeMappingGet(key, default) ==
  IF \E i \in 1..Len(TYPE_MAPPING) : TYPE_MAPPING[i].key = key
  THEN TYPE_MAPPING[CHOOSE i \in 1..Len(TYPE_MAPPING) : TYPE_MAPPING[i].key = key].file
  ELSE default

\* os.getcwd() of the server process
Getcwd == "/srv"

\* ------------------------------------------------------------- exceptions
\* every exception class the code can meet derives from Exception
ExceptionClasses ==
  {"CalledProcessError", "FileNotFoundError", "AttributeError", "TypeError",
   "UnboundLocalError", "IndexError", "McpError", "TimeoutExpired"}

Exc(class, msg, stderr) == [class |-> class, msg |-> msg, stderr |-> stderr]

\* a faulty variant: the clause written "except subprocess.SubprocessError"
IsSubprocessError(e) == e.class \in {"CalledProcessError", "TimeoutExpired"}

\* isinstance(e, Exception): what an "except Exception" clause catches
IsException(e) == e.class \in ExceptionClasses

\* Python values whose run-time type the code depends on
Dict(r) == [type |-> "dict", value |-> r]
List(s) == [type |-> "list", value |-> s]
Str(t)  == [type |-> "str",  value |-> t]

\* ------------------------------------------------------ the root provider
Root(p) == [uri |-> <<"file://", p>>, path |-> p]

\* what context.session.list_roots() can answer at one await: an error (no
\* context, no session, the client refuses) or a list of roots
ProviderResponses ==
  { [ok |-> FALSE, roots |-> <<>>],
    [ok |-> TRUE,  roots |-> <<>>],
    [ok |-> TRUE,  roots |-> <<Root("/a")>>],
    [ok |-> TRUE,  roots |-> <<Root("/b"), Root("/a")>>] }

ProviderError == <<"Method not found">>

\* lines 62-72: the working directory after the roots lookup
RootsWorkingDirectory(wd, resp) ==
  IF wd # None THEN wd
  ELSE IF ~resp.ok THEN wd
  ELSE IF resp.roots = <<>> THEN wd
  ELSE Some(resp.roots[1].path)

\* line 75: working_directory if working_directory else os.getcwd()
Cwd(wd) == IF wd # None /\ wd[1] # "" THEN wd[1] ELSE Getcwd

\* lines 87-99: the roots_check entry built from the second list_roots()
RootsCheck(resp) ==
  IF resp.ok
  THEN [found |-> TRUE, count |-> Len(resp.roots),
        roots |-> [i \in 1..Len(resp.roots) |-> resp.roots[i].uri]]
  ELSE [found |-> FALSE, error |-> ProviderError]

\* lines 78-99: debug_info
DebugInfo(wd, dir, resp) ==
  [provided_working_directory |-> wd,
   actual_cwd                 |-> dir,
   server_process_cwd         |-> Getcwd,
   roots_check                |-> RootsCheck(resp)]

\* --------------------------------------------------------- git subprocess
\* the texts git can print for a diff: newline-terminated lines
LineChoices == {<<>>, <<"a">>}

RECURSIVE Unlines(_)
Unlines(ls) == IF ls = <<>> THEN <<>> ELSE ls[1] \o <<NL>> \o Unlines(Tail(ls))

DiffTexts == {Unlines(ls) : ls \in UNION {[1..n -> LineChoices] : n \in 0..MaxTextLines}}

GitStderr == {<<"fatal: bad revision">>, <<"fatal: not a git repository">>}

\* how one git child process can end
Exited(code, out, err) == [kind |-> "exit", returncode |-> code, stdout |-> out, stderr |-> err]
GitFailures ==
  {Exited(128, <<>>, err) : err \in GitStderr}
  \cup {[kind |-> "nolaunch", returncode |-> 0, stdout |-> <<>>, stderr |-> <<>>],
        [kind |-> "hang",     returncode |-> 0, stdout |-> <<>>, stderr |-> <<>>]}

FilesOutcomes   == {Exited(0, <<"M", "\t", "a.py", NL>>, <<>>)} \cup GitFailures
StatOutcomes    == {Exited(0, <<" 1 file changed", NL>>, <<>>)} \cup GitFailures
DiffOutcomes    == {Exited(0, t, <<>>) : t \in DiffTexts} \cup GitFailures
CommitsOutcomes == {Exited(0, <<"abc123 msg", NL>>, <<>>)} \cup GitFailures

\* the timeout= argument of subprocess.run: not passed, so None
RunTimeout == None

\* subprocess.run(argv, capture_output=True, text=True, check=check,
\* timeout=timeout) on a child that ends as `out`
SubprocessRun(out, check, timeout) ==
  IF out.kind = "nolaunch"
  THEN [kind |-> "raised", stdout |-> <<>>,
        exc |-> Exc("FileNotFoundError",
                    <<"[Errno 2] No such file or directory: 'git'">>, <<>>)]
  ELSE IF out.kind = "hang"
  THEN IF timeout = None
       THEN [kind |-> "blocked", stdout |-> <<>>, exc |-> Exc("none", <<>>, <<>>)]
       ELSE [kind |-> "raised", stdout |-> <<>>,
             exc |-> Exc("TimeoutExpired", <<"Command timed out">>, <<>>)]
  ELSE IF check /\ out.returncode # 0
  THEN [kind |-> "raised", stdout |-> <<>>,
        exc |-> Exc("CalledProcessError",
                    <<"Command returned non-zero exit status">>, out.stderr)]
  ELSE [kind |-> "completed", stdout |-> out.stdout, exc |-> Exc("none", <<>>, <<>>)]

\* a faulty variant: the file-list query run without check=True
FilesUnchecked == FALSE

\* check= of the four subprocess.run calls
FilesCheck   == TRUE
StatCheck    == FALSE
DiffCheck    == FALSE
CommitsCheck == FALSE

\* lines 133-134: the truncation notice
TruncationNotice(max_diff_lines, total) ==
  <<NL, NL, "... Output truncated. Showing ", ToString(max_diff_lines), " of ",
    ToString(total), " lines ...",
    NL, "... Use max_diff_lines parameter to see more ...">>

\* lines 128-137: diff_lines, diff_content and truncated from the diff's stdout
DiffLines(stdout) == Split(stdout)

Truncate(stdout, max_diff_lines) ==
  LET diff_lines == DiffLines(stdout) IN
  IF Len(diff_lines) > max_diff_lines
  THEN [stdout |-> stdout,
        diff_content |-> Join(Slice(diff_lines, max_diff_lines))
                         \o TruncationNotice(max_diff_lines, Len(diff_lines)),
        truncated |-> TRUE, diff_lines |-> diff_lines]
  ELSE [stdout |-> stdout, diff_content |-> stdout, truncated |-> FALSE,
        diff_lines |-> diff_lines]

DiffNotIncluded == <<"Diff not included (set include_diff=true to see full diff)">>

\* lines 147-156: the analysis dictionary
Analysis(base_branch, files, stat, commits, include_diff, diff_content, is_truncated, lines, debug) ==
  Dict([base_branch      |-> base_branch,
        files_changed    |-> files,
        statistics       |-> stat,
        commits          |-> commits,
        diff             |-> IF include_diff THEN diff_content ELSE DiffNotIncluded,
        truncated        |-> is_truncated,
        total_diff_lines |-> IF include_diff THEN Len(lines) ELSE 0,
        _debug           |-> debug])

\* how a tool call ends: a value returned to the caller, or an exception
Returned(v)  == [ret |-> Some(v), raised |-> None]
Raised(e)    == [ret |-> None,    raised |-> Some(e)]

\* lines 160-163: the except clauses of analyze_file_changes
AnalyzeExcept(e) ==
  IF e.class = "CalledProcessError"
  THEN Returned(JsonDumps(Dict([error |-> <<"Git error: ">> \o e.stderr])))
  ELSE IF IsException(e)
  THEN Returned(JsonDumps(Dict([error |-> e.msg])))
  ELSE Raised(e)

\* ------------------------------------------------------------------ state
VARIABLES
  pc,                 \* where the tool call in flight stands
  request,            \* the call as the caller sent it: tool and arguments
  working_directory,  \* local of analyze_file_changes (Optional)
  cwd,                \* local (Optional)
  debug_info,         \* local (Optional)
  files_result,       \* stdout of the completed file-list query (Optional)
  stat_result,        \* stdout of the completed stat query (Optional)
  diff,               \* diff_result.stdout, diff_content, truncated, diff_lines
  roots_log,          \* the answers list_roots() gave to this call, in order
  queries,            \* the subprocess.run calls of this call, in order
  templates,          \* local of suggest_template (Optional)
  template_type,      \* local of suggest_template (Optional)
  relative_template,  \* local of suggest_template (Optional)
  result              \* how the call ended: Returned(..), Raised(..) or pending

vars == <<pc, request, working_directory, cwd, debug_info, files_result,
          stat_result, diff, roots_log, queries, templates, template_type,
          relative_template, result>>

Pending == [ret |-> None, raised |-> None]

NoRequest == [tool |-> "none"]

analyzeLocals == <<working_directory, cwd, debug_info, files_result, stat_result,
                   diff, roots_log, queries>>
suggestLocals == <<templates, template_type, relative_template>>

Init ==
  /\ pc = "idle"
  /\ request = NoRequest
  /\ working_directory = None
  /\ cwd = None
  /\ debug_info = None
  /\ files_result = None
  /\ stat_result = None
  /\ diff = None
  /\ roots_log = <<>>
  /\ queries = <<>>
  /\ templates = None
  /\ template_type = None
  /\ relative_template = None
  /\ result = Pending

\* the server takes a call when none is running
Free == pc = "idle"

\* the payload has gone to the caller: the coroutine's frame is discarded
Finish ==
  /\ pc = "done"
  /\ pc' = "idle"
  /\ request' = NoRequest
  /\ working_directory' = None
  /\ cwd' = None
  /\ debug_info' = None
  /\ files_result' = None
  /\ stat_result' = None
  /\ diff' = None
  /\ roots_log' = <<>>
  /\ queries' = <<>>
  /\ templates' = None
  /\ template_type' = None
  /\ relative_template' = None
  /\ result' = Pending

\* --------------------------------------------------- analyze_file_changes
BaseBranches == {"main"}
MaxDiffLinesArgs == (0 - NegLimit)..MaxLimit
WorkingDirectoryArgs == {None, Some(""), Some("/w")}

\* line 51: the call arrives with its arguments
AnalyzeCall ==
  /\ Free
  /\ \E bb \in BaseBranches, n \in MaxDiffLinesArgs, inc \in BOOLEAN,
        wd \in WorkingDirectoryArgs :
       /\ request' = [tool |-> "analyze_file_changes", base_branch |-> bb,
                      max_diff_lines |-> n, include_diff |-> inc,
                      working_directory |-> wd]
            /\ working_directory' = wd
  /\ pc' = "resolve"
  /\ UNCHANGED <<cwd, debug_info, files_result, stat_result, diff, roots_log,
                 queries, result>>
  /\ UNCHANGED suggestLocals

\* lines 61-75: the roots lookup (only when working_directory is None), then cwd
Resolve ==
  /\ pc = "resolve"
  /\ \E resp \in ProviderResponses :
       LET asked == working_directory = None
           wd    == RootsWorkingDirectory(working_directory, resp)
       IN /\ roots_log' = IF asked THEN Append(roots_log, [line |-> 65, resp |-> resp])
                                  ELSE roots_log
          /\ working_directory' = wd
          /\ cwd' = Some(Cwd(wd))
  /\ pc' = "debug"
  /\ UNCHANGED <<request, debug_info, files_result, stat_result, diff, queries,
                 result>>
  /\ UNCHANGED suggestLocals

\* lines 77-99: debug_info, with a second list_roots() for roots_check
Debug ==
  /\ pc = "debug"
  /\ \E resp \in ProviderResponses :
       /\ roots_log' = Append(roots_log, [line |-> 89, resp |-> resp])
       /\ debug_info' = Some(DebugInfo(working_directory, cwd[1], resp))
  /\ pc' = "files"
  /\ UNCHANGED <<request, working_directory, cwd, files_result, stat_result, diff,
                 queries, result>>
  /\ UNCHANGED suggestLocals

\* one subprocess.run call: its arguments and how the child ended
Query(argv, check, out) == [argv |-> argv, cwd |-> cwd[1], check |-> check,
                            timeout |-> RunTimeout, child |-> out]

FilesArgv   == <<"git", "diff", "--name-status", request.base_branch, "...HEAD">>
StatArgv    == <<"git", "diff", "--stat", request.base_branch, "...HEAD">>
DiffArgv    == <<"git", "diff", request.base_branch, "...HEAD">>
CommitsArgv == <<"git", "log", "--oneline", request.base_branch, "..HEAD">>

\* what a raising or blocking subprocess.run does to the call: the exception
\* reaches the except clauses; a wait without timeout on a child that never
\* exits never returns
Interrupted(run) ==
  /\ run.kind # "completed"
  /\ IF run.kind = "blocked"
     THEN pc' = "blocked" /\ result' = result
     ELSE pc' = "done" /\ result' = AnalyzeExcept(run.exc)

\* lines 101-108: git diff --name-status base...HEAD, check=True
GitFiles ==
  /\ pc = "files"
  /\ \E out \in FilesOutcomes :
       LET run == SubprocessRun(out, FilesCheck, RunTimeout) IN
       /\ queries' = Append(queries, Query(FilesArgv, FilesCheck, out))
       /\ IF run.kind = "completed"
          THEN /\ files_result' = Some(run.stdout)
               /\ pc' = "stat"
               /\ UNCHANGED result
          ELSE Interrupted(run) /\ UNCHANGED files_result
  /\ UNCHANGED <<request, working_directory, cwd, debug_info, stat_result, diff,
                 roots_log>>
  /\ UNCHANGED suggestLocals

\* lines 110-116: git diff --stat base...HEAD
GitStat ==
  /\ pc = "stat"
  /\ \E out \in StatOutcomes :
       LET run == SubprocessRun(out, StatCheck, RunTimeout) IN
       /\ queries' = Append(queries, Query(StatArgv, StatCheck, out))
       /\ IF run.kind = "completed"
          THEN /\ stat_result' = Some(run.stdout)
               /\ pc' = "diff"
               /\ UNCHANGED result
          ELSE Interrupted(run) /\ UNCHANGED stat_result
  /\ UNCHANGED <<request, working_directory, cwd, debug_info, files_result, diff,
                 roots_log>>
  /\ UNCHANGED suggestLocals

\* lines 118-137: the diff, when asked for, and its truncation
GitDiff ==
  /\ pc = "diff"
  /\ IF request.include_diff
     THEN \E out \in DiffOutcomes :
            LET run == SubprocessRun(out, DiffCheck, RunTimeout) IN
            /\ queries' = Append(queries, Query(DiffArgv, DiffCheck, out))
            /\ IF run.kind = "completed"
               THEN /\ diff' = Some(Truncate(run.stdout, request.max_diff_lines))
                    /\ pc' = "commits"
                    /\ UNCHANGED result
               ELSE Interrupted(run) /\ UNCHANGED diff
     ELSE /\ diff' = Some([stdout |-> <<>>, diff_content |-> <<>>,
                           truncated |-> FALSE, diff_lines |-> <<>>])
          /\ pc' = "commits"
          /\ UNCHANGED <<queries, result>>
  /\ UNCHANGED <<request, working_directory, cwd, debug_info, files_result,
                 stat_result, roots_log>>
  /\ UNCHANGED suggestLocals

\* lines 139-158: git log --oneline base..HEAD, then the report
GitCommits ==
  /\ pc = "commits"
  /\ \E out \in CommitsOutcomes :
       LET run == SubprocessRun(out, CommitsCheck, RunTimeout) IN
       /\ queries' = Append(queries, Query(CommitsArgv, CommitsCheck, out))
       /\ IF run.kind = "completed"
          THEN /\ result' = Returned(JsonDumps(
                    Analysis(request.base_branch, files_result[1], stat_result[1],
                             run.stdout, request.include_diff, diff[1].diff_content,
                             diff[1].truncated, diff[1].diff_lines, debug_info[1])))
               /\ pc' = "done"
          ELSE Interrupted(run)
  /\ UNCHANGED <<request, working_directory, cwd, debug_info, files_result,
                 stat_result, diff, roots_log>>
  /\ UNCHANGED suggestLocals

\* ------------------------------------------------------- get_pr_templates
\* which template files cannot be read when the catalog is loaded
UnreadableSets == {{}, {"bug.md"}, {"docs.md"}, {"docs.md", "test.md"}}

\* the text of a template file
Content(name) == <<"## ", name, NL>>

\* lines 172-176: one entry of the list
TemplateRecord(t) ==
  Dict([filename |-> t.name, type |-> t.label, content |-> Content(t.name)])

\* lines 180-181: the except clause of get_pr_templates
GetPrTemplatesExcept(e) ==
  IF IsException(e)
  THEN Returned(JsonDumps(Dict([error |-> e.msg])))
  ELSE Raised(e)

\* lines 170-181: every file is read in declaration order; the first unreadable
\* one raises out of the comprehension
GetPrTemplates(unreadable) ==
  LET n   == Len(DEFAULT_TEMPLATES)
      bad == {i \in 1..n : DEFAULT_TEMPLATES[i].name \in unreadable}
  IN IF bad = {}
     THEN Returned(JsonDumps(List([i \in 1..n |-> TemplateRecord(DEFAULT_TEMPLATES[i])])))
     ELSE LET first == CHOOSE i \in bad : \A j \in bad : i <= j IN
          GetPrTemplatesExcept(Exc("FileNotFoundError",
            <<"[Errno 2] No such file or directory: ", DEFAULT_TEMPLATES[first].name>>,
            <<>>))

GetPrTemplatesCall ==
  /\ Free
  /\ request' = [tool |-> "get_pr_templates"]
  /\ \E unreadable \in UnreadableSets : result' = GetPrTemplates(unreadable)
  /\ pc' = "done"
  /\ UNCHANGED analyzeLocals
  /\ UNCHANGED suggestLocals

\* ------------------------------------------------------- suggest_template
\* str.upper(), to spell the variants of a change type
UpperChar(c) ==
  IF \E i \in 1..Len(LowerLetters) : LowerLetters[i] = c
  THEN UpperLetters[CHOOSE i \in 1..Len(LowerLetters) : LowerLetters[i] = c]
  ELSE c
Upper(s) == [i \in 1..Len(s) |-> UpperChar(s[i])]
Capitalize(s) == [i \in 1..Len(s) |-> IF i = 1 THEN UpperChar(s[i]) ELSE s[i]]

Keys == {TYPE_MAPPING[i].key : i \in 1..Len(TYPE_MAPPING)}
UnknownType == <<"c","h","o","r","e">>
ChangeTypeArgs ==
  Keys \cup {Upper(k) : k \in Keys} \cup {Capitalize(k) : k \in Keys} \cup {UnknownType}
SummaryArgs == {<<"adds a cache">>}

\* the elements a for loop visits: a list's items, a dict's keys
Iter(v) ==
  IF v.type = "list" THEN v.value
  ELSE LET keys == DOMAIN v.value
           order == CHOOSE f \in [1..Cardinality(keys) -> keys] :
                      \A i, j \in 1..Cardinality(keys) : i # j => f[i] # f[j]
       IN [i \in 1..Cardinality(keys) |-> Str(order[i])]

\* line 199: templates.get(template_type, "").lower(); Some(e) when it raises
Line199(tpls, ttype) ==
  IF tpls.type # "dict"
  THEN Some(Exc("AttributeError", <<"'list' object has no attribute 'get'">>, <<>>))
  ELSE IF ttype \in DOMAIN tpls.value
  THEN Some(Exc("AttributeError", <<"object has no attribute 'lower'">>, <<>>))
  ELSE None

\* a faulty variant: the scan without its break, so that elements after the
\* match are visited too
RECURSIVE ScanNoBreak(_, _, _, _)
ScanNoBreak(items, ttype, i, sel) ==
  IF i > Len(items) THEN [raised |-> None, relative_template |-> sel]
  ELSE IF items[i].type # "dict"
  THEN [raised |-> Some(Exc("TypeError",
                     <<"string indices must be integers, not 'str'">>, <<>>)),
        relative_template |-> sel]
  ELSE IF items[i].value.filename = ttype
  THEN ScanNoBreak(items, ttype, i + 1, Some(items[i]))
  ELSE ScanNoBreak(items, ttype, i + 1, Some(items[1]))

\* lines 200-206: the scan from element i on, relative_template being sel so far
RECURSIVE Scan(_, _, _, _)
Scan(items, ttype, i, sel) ==
  IF i > Len(items) THEN [raised |-> None, relative_template |-> sel]
  ELSE IF items[i].type # "dict"
  THEN [raised |-> Some(Exc("TypeError",
                     <<"string indices must be integers, not 'str'">>, <<>>)),
        relative_template |-> sel]
  ELSE IF items[i].value.filename = ttype
  THEN [raised |-> None, relative_template |-> Some(items[i])]
  ELSE Scan(items, ttype, i + 1, Some(items[1]))

SuggestionNote ==
  <<"Claude can help you fill out this template based on the specific changes in your PR.">>

\* lines 207-212: the suggestion
Suggestion(sel, changes_summary, change_type) ==
  Dict([recommended_template |-> sel,
        reasoning |-> <<"Based on your analysis: '">> \o changes_summary
                      \o <<"', this appears to be a ">> \o change_type \o <<" change.">>,
        template_content |-> sel.value.content,
        suggestion |-> SuggestionNote])

\* lines 214-221: the except clause of suggest_template
SuggestExcept(e) ==
  IF IsException(e)
  THEN Returned(JsonDumps(Dict(
         [recommended_template |-> Str(<<"recommended_template ">> \o e.msg),
          reasoning |-> <<"Based on your analysis: changes_summary, this appears to be a ">>
                        \o e.msg \o <<" change.">>,
          template_content |-> <<"template_content ">> \o e.msg,
          suggestion |-> SuggestionNote \o <<" ">> \o e.msg])))
  ELSE Raised(e)

\* lines 200-223: the scan, the suggestion and the return
Select(tpls, ttype, changes_summary, change_type) ==
  LET scan == Scan(Iter(tpls), ttype, 1, None) IN
  [relative_template |-> scan.relative_template,
   result |->
     IF scan.raised # None THEN SuggestExcept(scan.raised[1])
     ELSE IF scan.relative_template = None
     THEN SuggestExcept(Exc("UnboundLocalError",
            <<"cannot access local variable 'relative_template'">>, <<>>))
     ELSE Returned(JsonDumps(
            Suggestion(scan.relative_template[1], changes_summary, change_type)))]

\* lines 192-223, whole
SuggestTemplate(changes_summary, change_type, unreadable) ==
  LET response == GetPrTemplates(unreadable) IN
  IF response.raised # None
  THEN [templates |-> None, template_type |-> None, relative_template |-> None,
        result |-> SuggestExcept(response.raised[1])]
  ELSE
  LET tpls  == JsonLoads(response.ret[1])
      ttype == TypeMappingGet(Lower(change_type), "feature.md")
      e199  == Line199(tpls, ttype)
  IN IF e199 # None
     THEN [templates |-> Some(tpls), template_type |-> Some(ttype),
           relative_template |-> None, result |-> SuggestExcept(e199[1])]
     ELSE LET sel == Select(tpls, ttype, changes_summary, change_type) IN
          [templates |-> Some(tpls), template_type |-> Some(ttype),
           relative_template |-> sel.relative_template, result |-> sel.result]

SuggestTemplateCall ==
  /\ Free
  /\ \E changes_summary \in SummaryArgs, change_type \in ChangeTypeArgs,
        unreadable \in UnreadableSets :
       LET run == SuggestTemplate(changes_summary, change_type, unreadable) IN
       /\ request' = [tool |-> "suggest_template", changes_summary |-> changes_summary,
                      change_type |-> change_type, unreadable |-> unreadable]
       /\ templates' = run.templates
       /\ template_type' = run.template_type
       /\ relative_template' = run.relative_template
       /\ result' = run.result
  /\ pc' = "done"
  /\ UNCHANGED analyzeLocals

\* ------------------------------------------------------ the specifications
Next ==
  \/ AnalyzeCall \/ Resolve \/ Debug \/ GitFiles \/ GitStat \/ GitDiff \/ GitCommits
  \/ GetPrTemplatesCall
  \/ SuggestTemplateCall
  \/ Finish

Spec == Init /\ [][Next]_vars

\* the steps of a call in flight: the event loop runs a started coroutine on
Step == Resolve \/ Debug \/ GitFiles \/ GitStat \/ GitDiff \/ GitCommits \/ Finish

FairSpec == Spec /\ WF_vars(Step)

\* The scan of suggest_template on its own: the state before line 200 for a
\* list of template records and a change type, then lines 200-223.
NamesForScan == {DEFAULT_TEMPLATES[i].name : i \in 1..4}
RecordOf(name) ==
  TemplateRecord(DEFAULT_TEMPLATES[CHOOSE i \in 1..Len(DEFAULT_TEMPLATES) :
                                     DEFAULT_TEMPLATES[i].name = name])
NameListsForScan ==
  {g \in UNION {[1..m -> NamesForScan] : m \in 0..MaxListLen} :
     \A i, j \in DOMAIN g : i # j => g[i] # g[j]}
ListsForScan == {[i \in DOMAIN g |-> RecordOf(g[i])] : g \in NameListsForScan}

InitScan ==
  /\ pc = "scan"
  /\ \E changes_summary \in SummaryArgs, change_type \in ChangeTypeArgs :
       /\ request = [tool |-> "suggest_template", changes_summary |-> changes_summary,
                     change_type |-> change_type, unreadable |-> {}]
       /\ template_type = Some(TypeMappingGet(Lower(change_type), "feature.md"))
  /\ \E l \in ListsForScan : templates = Some(List(l))
  /\ relative_template = None
  /\ working_directory = None
  /\ cwd = None
  /\ debug_info = None
  /\ files_result = None
  /\ stat_result = None
  /\ diff = None
  /\ roots_log = <<>>
  /\ queries = <<>>
  /\ result = Pending

SelectStep ==
  /\ pc = "scan"
  /\ LET sel == Select(templates[1], template_type[1], request.changes_summary,
                       request.change_type)
     IN /\ relative_template' = sel.relative_template
        /\ result' = sel.result
  /\ pc' = "done"
  /\ UNCHANGED <<request, templates, template_type>>
  /\ UNCHANGED analyzeLocals

NextScan == SelectStep

SpecScan == InitScan /\ [][NextScan]_vars

\* ================================================================ claims
\* vocabulary of the claims
Done == pc = "done"
IsAnalyze == request.tool = "analyze_file_changes"
IsSuggest == request.tool = "suggest_template"
HasPayload == result.ret # None
Payload == JsonLoads(result.ret[1])
ErrorPayload == HasPayload /\ Payload.type = "dict" /\ "error" \in DOMAIN Payload.value
SuccessReport == Done /\ IsAnalyze /\ HasPayload /\ ~ErrorPayload
Report == Payload.value

\* the lines of a text as a reader counts them: each newline ends a line, and
\* text after the last newline is one more line
RECURSIVE TextLines(_, _)
TextLines(text, current) ==
  IF text = <<>> THEN (IF current = <<>> THEN <<>> ELSE <<current>>)
  ELSE IF Head(text) = NL THEN <<current>> \o TextLines(Tail(text), <<>>)
  ELSE TextLines(Tail(text), Append(current, Head(text)))
LinesOf(text) == TextLines(text, <<>>)
LineCount(text) == Len(LinesOf(text))
FirstLines(text, n) == SubSeq(LinesOf(text), 1, Min(Max(n, 0), LineCount(text)))

\* the i-th subprocess.run of the call exited with a non-zero status
Failed(i) == queries[i].child.kind = "exit" /\ queries[i].child.returncode # 0
\* the answer of list_roots() at the resolution (line 65), if it was asked
Asked65 == roots_log # <<>> /\ roots_log[1].line = 65

\* C1 (as claimed): with include_diff, a diff of L lines and max_diff_lines = N
\* comes back as its first N lines plus the notice and truncated = true when
\* L > N, and unchanged with truncated = false when L <= N, for every N.
C1_Truncation ==
  (SuccessReport /\ request.include_diff) =>
    LET text == diff[1].stdout
        L    == LineCount(text)
        N    == request.max_diff_lines
    IN IF L > N
       THEN /\ Report.truncated = TRUE
            /\ Report.diff = Join(FirstLines(text, N)) \o TruncationNotice(N, L)
       ELSE /\ Report.truncated = FALSE
            /\ Report.diff = text

\* C2 (as claimed): with every template readable, a change type that is a key
\* of TYPE_MAPPING in any case gets the template the table names, and its
\* content.
C2_AliasResolves ==
  (Done /\ IsSuggest /\ request.unreadable = {}) =>
    \A i \in 1..Len(TYPE_MAPPING) :
      LET k == TYPE_MAPPING[i].key IN
      request.change_type \in {k, Upper(k), Capitalize(k)} =>
        /\ HasPayload
        /\ Report.recommended_template.type = "dict"
        /\ Report.recommended_template.value.filename = TYPE_MAPPING[i].file
        /\ Report.template_content = Content(TYPE_MAPPING[i].file)

\* C3 (as claimed): a non-empty working_directory is the cwd of every git
\* query; an absent or empty one makes the code ask the root provider and use
\* the first root's path; only without roots is the process's directory used.
C3_ResolutionPriority ==
  (IsAnalyze /\ cwd # None) =>
    LET wd == request.working_directory IN
    /\ \A i \in 1..Len(queries) : queries[i].cwd = cwd[1]
    /\ IF wd # None /\ wd[1] # ""
       THEN cwd[1] = wd[1]
       ELSE /\ Asked65
            /\ LET resp == roots_log[1].resp IN
               IF resp.ok /\ resp.roots # <<>>
               THEN cwd[1] = resp.roots[1].path
               ELSE cwd[1] = Getcwd

\* C4: a finished call of any of the three tools has returned one serialized
\* payload (a JSON object or list) and has raised nothing; a failure of a
\* collaborator is inside the payload.
C4_Total ==
  /\ Done => /\ HasPayload
             /\ result.raised = None
             /\ Payload.type \in {"dict", "list"}
  /\ result.raised = None

C4_Witness ==
  /\ Done /\ IsAnalyze
  /\ roots_log # <<>> /\ ~roots_log[1].resp.ok
  /\ queries[Len(queries)].child.kind = "nolaunch"
  /\ Len(queries) > 1
  /\ ErrorPayload

\* C5: when the file-list query exits non-zero with stderr S, the call is over
\* and its payload is exactly {"error": "Git error: " + S}.
C5_GitError ==
  (IsAnalyze /\ queries # <<>> /\ Failed(1)) =>
    /\ Done
    /\ result = Returned(JsonDumps(Dict(
                  [error |-> <<"Git error: ">> \o queries[1].child.stderr])))
    /\ DOMAIN Payload.value = {"error"}

C5_Witness ==
  /\ IsAnalyze /\ queries # <<>> /\ Failed(1)
  /\ queries[1].child.stderr = <<"fatal: bad revision">>
  /\ request.working_directory = None
  /\ roots_log[1].resp.ok
  /\ Payload.value.error = <<"Git error: ", "fatal: bad revision">>

\* C6 (as claimed): total_diff_lines of a success report is the number of
\* lines of the untruncated diff with include_diff, and 0 without.
C6_TotalDiffLines ==
  SuccessReport =>
    Report.total_diff_lines =
      IF request.include_diff THEN LineCount(diff[1].stdout) ELSE 0

\* C7 (as claimed): every git query waits a bounded time, so a call of
\* analyze_file_changes that has not returned yet can always take its next
\* step, whatever the git child does.
C7_NeverBlocked == (IsAnalyze /\ ~Done) => ENABLED Step

\* C7, as a liveness property under FairSpec: every call of
\* analyze_file_changes eventually returns.
C7_EventuallyReturns == (IsAnalyze /\ pc = "resolve") ~> Done

\* the field of the report that holds the output of the i-th query
FieldOf(i) ==
  IF queries[i].argv = StatArgv THEN Report.statistics
  ELSE IF queries[i].argv = DiffArgv THEN Report.diff
  ELSE Report.commits

\* C8 (as claimed): once the file-list query has succeeded, a non-zero exit of
\* the stat, diff or log query still gives a success report, in which the
\* failed query's field is the empty text.
C8_ToleratedFailures ==
  (Done /\ IsAnalyze /\ \A i \in 1..Len(queries) : queries[i].child.kind = "exit") =>
    (~Failed(1) =>
       /\ SuccessReport
       /\ \A i \in 2..Len(queries) : Failed(i) => FieldOf(i) = <<>>)

\* C10 (as claimed): the _debug record of a success report shows the answer of
\* the provider that the resolution used: when the directory came from the
\* provider, roots_check has found = true and that root first; when the
\* provider failed, roots_check reports the failure.
C10_DiagnosticsMatch ==
  (SuccessReport /\ request.working_directory = None) =>
    LET resp  == roots_log[1].resp
        check == Report._debug.roots_check
    IN /\ Asked65
       /\ (resp.ok /\ resp.roots # <<>>) =>
            /\ check.found
            /\ check.count >= 1
            /\ check.roots[1] = resp.roots[1].uri
       /\ ~resp.ok => ~check.found

\* ---- the scan, under SpecScan
ScanList == templates[1].value
ScanTarget == template_type[1]
Matches == {i \in 1..Len(ScanList) : ScanList[i].value.filename = ScanTarget}
FirstMatch == CHOOSE i \in Matches : \A j \in Matches : i <= j
Selected == Report.recommended_template

====
